---- MODULE Spec2Model ----
(***************************************************************************)
(* A model of task3.js, the non-transitive dice game: argument validation  *)
(* (parseDiceConfig, validateArguments, main), the commit-reveal exchange  *)
(* (SecureRandomGenerator.fairRandomGeneration and getUserNumber) and the  *)
(* game orchestration of DiceGame.playGame.                                *)
(*                                                                         *)
(* Text is modelled as a tuple of one-character strings, so that trim,     *)
(* split, toUpperCase and parseInt are computed as JavaScript computes     *)
(* them.  A JavaScript value is a record [t, v]: t is its type tag and v   *)
(* its number when t = "num".                                              *)
(***************************************************************************)
EXTENDS Integers, Sequences, FiniteSets, TLC

\* ------------------------------------------------------------ bounds
\* Number of distinct 32-byte keys generateSecureKey can return in the model.
NumKeys == 2
\* Invalid replies accepted at one prompt before the model stops offering them.
MaxRetries == 1
\* Longest argument list SpecArgs enumerates.
MaxArgs == 3
\* Largest |min| and |max| SpecExchange enumerates.
MaxAbs == 2
\* Most faces of a die and largest face value SpecProb enumerates.
MaxFaces == 2
MaxFaceValue == 2

\* The values of one random byte, line 22: the widest range generateUniformRandom
\* serves with a single byte.
MaxWidth == 256

\* The fewest dice a game is played with, validateArguments line 351.
MinDice == 3

\* ------------------------------------------------------------ JavaScript values
Num(n) == [t |-> "num", v |-> n]
Null == [t |-> "null", v |-> 0]
Undefined == [t |-> "undefined", v |-> 0]
NaN == [t |-> "nan", v |-> 0]
\* The one-character string '?' that getUserNumber returns for a help request.
HelpStr == [t |-> "str?", v |-> 0]
\* A string made by concatenating a number and '?', such as "1?".
OtherStr == [t |-> "str", v |-> 0]

True == [t |-> "boolean", v |-> 1]
False == [t |-> "boolean", v |-> 0]
Bool(b) == IF b THEN True ELSE False

IsNum(x) == x.t = "num"

\* a + b: numeric addition, string concatenation when an operand is a string,
\* NaN when an operand is NaN or undefined.
JSAdd(a, b) ==
    IF a.t \in {"str?", "str"} \/ b.t \in {"str?", "str"} THEN OtherStr
    ELSE IF IsNum(a) /\ IsNum(b) THEN Num(a.v + b.v)
    ELSE IF a.t = "null" /\ IsNum(b) THEN b
    ELSE IF b.t = "null" /\ IsNum(a) THEN a
    ELSE NaN

\* The remainder of integers as JavaScript computes it: truncated, with the
\* sign of the dividend.
IntRem(a, m) == IF a >= 0 THEN a % m ELSE -((-a) % m)

\* a % m for a number m >= 1: a string that is no numeric literal ("1?", "?")
\* converts to NaN.
JSRem(a, m) == IF IsNum(a) THEN Num(IntRem(a.v, m)) ELSE NaN

\* a > b: false whenever an operand converts to NaN.
JSGreater(a, b) == IsNum(a) /\ IsNum(b) /\ a.v > b.v

\* ------------------------------------------------------------ text
Digits == {"0", "1", "2", "3", "4", "5", "6", "7", "8", "9"}

DigitVal(ch) ==
    CASE ch = "0" -> 0 [] ch = "1" -> 1 [] ch = "2" -> 2 [] ch = "3" -> 3
      [] ch = "4" -> 4 [] ch = "5" -> 5 [] ch = "6" -> 6 [] ch = "7" -> 7
      [] ch = "8" -> 8 [] ch = "9" -> 9

RECURSIVE TrimLeft(_)
TrimLeft(s) == IF s # <<>> /\ Head(s) = " " THEN TrimLeft(Tail(s)) ELSE s

RECURSIVE TrimRight(_)
TrimRight(s) ==
    IF s # <<>> /\ s[Len(s)] = " " THEN TrimRight(SubSeq(s, 1, Len(s) - 1)) ELSE s

\* String.prototype.trim
Trim(s) == TrimRight(TrimLeft(s))

\* String.prototype.toUpperCase, on the letters the model's texts hold.
UpperChar(ch) == IF ch = "x" THEN "X" ELSE IF ch = "a" THEN "A" ELSE ch
ToUpperCase(s) == [i \in 1..Len(s) |-> UpperChar(s[i])]

\* The value of the longest prefix of digits of s, continuing from acc.
RECURSIVE DigitPrefix(_, _)
DigitPrefix(s, acc) ==
    IF s # <<>> /\ Head(s) \in Digits
      THEN DigitPrefix(Tail(s), 10 * acc + DigitVal(Head(s)))
      ELSE acc

\* parseInt(s): leading white space is skipped, a sign is read, then the longest
\* prefix of digits; what follows the digits is ignored; NaN without a digit.
ParseInt(s) ==
    LET t == TrimLeft(s)
        neg == t # <<>> /\ Head(t) = "-"
        u == IF t # <<>> /\ Head(t) \in {"-", "+"} THEN Tail(t) ELSE t
    IN  IF u = <<>> \/ Head(u) \notin Digits THEN NaN
        ELSE Num(IF neg THEN -DigitPrefix(u, 0) ELSE DigitPrefix(u, 0))

\* String.prototype.split(','): the pieces between the commas, in order.
RECURSIVE SplitFrom(_, _)
SplitFrom(s, cur) ==
    IF s = <<>> THEN <<cur>>
    ELSE IF Head(s) = "," THEN <<cur>> \o SplitFrom(Tail(s), <<>>)
    ELSE SplitFrom(Tail(s), Append(cur, Head(s)))

Split(s) == SplitFrom(s, <<>>)

\* ------------------------------------------------------------ argument validation
\* The number of faces parseDiceConfig requires.
FaceCount == 6

\* parseDiceConfig without its check of the number of faces.
ParseDiceConfigAnyCount(configStr) ==
    LET toks == Split(configStr)
        values == [i \in 1..Len(toks) |-> ParseInt(Trim(toks[i]))]
    IN  IF \E i \in 1..Len(values) : values[i] = NaN
          THEN [ok |-> FALSE, error |-> "integers", faces |-> <<>>]
        ELSE [ok |-> TRUE, error |-> "", faces |-> [i \in 1..Len(values) |-> values[i].v]]

\* parseDiceConfig: the faces of the die, or the message of the Error thrown.
\* The map over the tokens throws at the first token parseInt cannot read,
\* before the count of faces is looked at.
ParseDiceConfig(configStr) ==
    LET toks == Split(configStr)
        values == [i \in 1..Len(toks) |-> ParseInt(Trim(toks[i]))]
    IN  IF \E i \in 1..Len(values) : values[i] = NaN
          THEN [ok |-> FALSE, error |-> "integers", faces |-> <<>>]
        ELSE IF Len(values) # FaceCount
          THEN [ok |-> FALSE, error |-> "faces", faces |-> <<>>]
        ELSE [ok |-> TRUE, error |-> "", faces |-> [i \in 1..Len(values) |-> values[i].v]]

\* validateArguments: the dice configurations, or the Error thrown.
ValidateArguments(a) ==
    IF Len(a) < MinDice
      THEN [ok |-> FALSE, error |-> "required", configs |-> <<>>]
    ELSE IF \E i \in 1..Len(a) : ~ParseDiceConfig(a[i]).ok
      THEN LET i == CHOOSE k \in 1..Len(a) :
                      /\ ~ParseDiceConfig(a[k]).ok
                      /\ \A j \in 1..(k - 1) : ParseDiceConfig(a[j]).ok
           IN  [ok |-> FALSE, error |-> ParseDiceConfig(a[i]).error, configs |-> <<>>]
    ELSE [ok |-> TRUE, error |-> "", configs |-> [i \in 1..Len(a) |-> ParseDiceConfig(a[i]).faces]]

\* ------------------------------------------------------------ inputs
CharsA == <<"2", ",", "2", ",", "4", ",", "4", ",", "9", ",", "9">>
CharsB == <<"6", ",", "8", ",", "1", ",", "1", ",", "8", ",", "6">>
CharsC == <<"7", ",", "5", ",", "3", ",", "7", ",", "5", ",", "3">>
\* Six tokens, the last with a letter after its digit: "2,2,6,6,7,7x".
CharsJunk == <<"2", ",", "2", ",", "6", ",", "6", ",", "7", ",", "7", "x">>
\* Six tokens, one a decimal fraction, with blanks around a token: "1, 6 ,4,4,8,2.5".
CharsFrac == <<"1", ",", " ", "6", " ", ",", "4", ",", "4", ",", "8", ",", "2", ".", "5">>
\* Five faces.
CharsShort == <<"1", ",", "2", ",", "3", ",", "4", ",", "5">>
\* Seven faces.
CharsLong == <<"1", ",", "2", ",", "3", ",", "4", ",", "5", ",", "6", ",", "7">>
\* Six tokens, the last no number at all: "1,2,3,4,5,x".
CharsBadX == <<"1", ",", "2", ",", "3", ",", "4", ",", "5", ",", "x">>
\* Six tokens, one empty: "1,2,,4,5,6".
CharsEmptyTok == <<"1", ",", "2", ",", ",", "4", ",", "5", ",", "6">>

DieArgs ==
    {CharsA, CharsB, CharsJunk, CharsFrac, CharsShort, CharsLong, CharsBadX, CharsEmptyTok}

RECURSIVE SeqsOfLen(_, _)
SeqsOfLen(S, n) ==
    IF n = 0 THEN {<<>>}
    ELSE {Append(q, x) : q \in SeqsOfLen(S, n - 1), x \in S}

\* Every argument list of at most MaxArgs arguments.
ArgLists == UNION {SeqsOfLen(DieArgs, n) : n \in 0..MaxArgs}

\* The argument lists the game is played with.
GameArgLists ==
    { <<CharsA, CharsB, CharsJunk>>,
      <<CharsA, CharsFrac, CharsC, CharsJunk>>,
      <<CharsA, CharsB>>,
      <<CharsA, CharsShort, CharsC>>,
      <<CharsA, CharsB, CharsBadX>> }

\* The lines the user types at a prompt.
Replies ==
    { <<"0">>, <<"1">>, <<"2">>, <<"3">>, <<"4">>, <<"5">>, <<"6">>, <<"7">>,
      <<"-", "1">>, <<"-", "2">>, <<" ", "1", " ">>, <<"1", "a">>, <<"a">>, <<>>,
      <<"?">>, <<"X">>, <<"x">>, <<" ", "x">> }

\* ------------------------------------------------------------ commitment
\* Number.prototype.toString for an integer.
RECURSIVE NatToString(_)
NatToString(n) ==
    LET d == CHOOSE ch \in Digits : DigitVal(ch) = n % 10
    IN  IF n < 10 THEN <<d>> ELSE Append(NatToString(n \div 10), d)

NumToString(n) == IF n < 0 THEN <<"-">> \o NatToString(-n) ELSE NatToString(n)

\* generateSecureKey: one of the keys of the model.
Keys == 1..NumKeys

\* calculateHMAC: HMAC-SHA256 as an ideal keyed hash, a digest that determines
\* the key and the text of the message and nothing else.
CalculateHMAC(message, key) == [key |-> key, msg |-> NumToString(message)]
NoDigest == [key |-> 0, msg |-> <<>>]

RECURSIVE Pow256(_)
Pow256(b) == IF b = 0 THEN 1 ELSE 256 * Pow256(b - 1)

\* Math.ceil(Math.log2(range) / 8): the least b with 256^b >= range.
RECURSIVE BytesFrom(_, _)
BytesFrom(range, b) == IF Pow256(b) >= range THEN b ELSE BytesFrom(range, b + 1)
BytesNeeded(range) == BytesFrom(range, 0)

\* A bound below every raw value: each draw is drawn again.
MaxValidNone(range) == -1

\* The largest raw value when none is drawn again.
MaxValidNoRejection(range) == Pow256(BytesNeeded(range)) - 1

\* The largest raw value generateUniformRandom accepts.
MaxValid(range) == (Pow256(BytesNeeded(range)) \div range) * range - 1

\* The raw values crypto.randomBytes(bytesNeeded) can yield, read big-endian.
RawValues(range) == 0..(Pow256(BytesNeeded(range)) - 1)

\* The value generateUniformRandom returns for an accepted raw value.
UniformValue(raw, min, max) == (raw % (max - min + 1)) + min

\* ------------------------------------------------------------ probability engine
RECURSIVE Gcd(_, _)
Gcd(a, b) == IF b = 0 THEN a ELSE Gcd(b, a % b)

\* wins / total: the quotient of two small naturals, held as the fraction in
\* lowest terms that determines the double; 0 / 0 is NaN.
Divide(wins, total) ==
    IF total = 0 THEN [num |-> 0, den |-> 0]
    ELSE [num |-> wins \div Gcd(wins, total), den |-> total \div Gcd(wins, total)]

\* The literal 0.5.
Half == [num |-> 1, den |-> 2]

\* p > 0.5 for a quotient p.
AboveHalf(p) == p.den # 0 /\ 2 * p.num > p.den

\* The comparison with its operands exchanged.
BeatsReversed(face1, face2) == face2 > face1

\* The comparison that counts equal faces as wins.
BeatsOrTies(face1, face2) == face1 >= face2

\* calculatePairProbability, line 135: face1 > face2.
Beats(face1, face2) == face1 > face2

\* The inner loop of calculatePairProbability: the wins of face1 over faces2.
RECURSIVE WinsOfFace(_, _)
WinsOfFace(face1, faces2) ==
    IF faces2 = <<>> THEN 0
    ELSE (IF Beats(face1, Head(faces2)) THEN 1 ELSE 0) + WinsOfFace(face1, Tail(faces2))

\* The outer loop of calculatePairProbability: wins over all pairs of faces.
RECURSIVE PairWins(_, _)
PairWins(faces1, faces2) ==
    IF faces1 = <<>> THEN 0
    ELSE WinsOfFace(Head(faces1), faces2) + PairWins(Tail(faces1), faces2)

\* calculatePairProbability: total counts one per pair of faces.
CalculatePairProbability(faces1, faces2) ==
    Divide(PairWins(faces1, faces2), Len(faces1) * Len(faces2))

\* The matrix with each pair's dice the other way round.
CalculateWinProbabilitiesTransposed(d) ==
    [i \in 1..Len(d) |->
        [j \in 1..Len(d) |->
            IF i = j THEN Half ELSE CalculatePairProbability(d[j], d[i])]]

\* calculateWinProbabilities: 0.5 on the diagonal, the pair probability elsewhere.
CalculateWinProbabilities(d) ==
    [i \in 1..Len(d) |->
        [j \in 1..Len(d) |->
            IF i = j THEN Half ELSE CalculatePairProbability(d[i], d[j])]]

\* ------------------------------------------------------------ state
VARIABLES
    args,                  \* process.argv.slice(2)
    pc,                    \* where the program waits: "main", "firstMove", "chooseDice",
                           \* "firstRoll", "secondRoll", "call"; or how it ended:
                           \* "completed", "exited", "rejected"; "thrown" while
                           \* an error travels from playGame to main, "faulted"
                           \* once main has ended the process for it
    exitCode,              \* the exit code of the process, -1 while it runs
    rl,                    \* the readline interface: "none", "open", "closed"
    dice,                  \* DiceGame.dice: the faces of each die
    round,                 \* the locals and console lines of the exchange round
    computerFirst,         \* playGame's computerFirst, Undefined until decided
    firstPlayerDiceIndex,  \* playGame's local, -1 until chosen
    secondPlayerDiceIndex, \* playGame's local, -1 until chosen
    computerAvailable,     \* availableDice of the last computerChooseDice call
    userMenu,              \* the die indices the last userChooseDice menu listed
    chosen,                \* what userChooseDice returned, Undefined until it returns
    firstRoll,             \* playGame's firstRoll
    secondRoll,            \* playGame's secondRoll
    verdict,               \* the win or tie line printed: "none", "I win", "You win", "tie"
    tableShown,            \* a probability table has been displayed
    probabilities          \* the matrix of the last calculateWinProbabilities call

vars ==
    << args, pc, exitCode, rl, dice, round, computerFirst, firstPlayerDiceIndex,
       secondPlayerDiceIndex, computerAvailable, userMenu, chosen, firstRoll,
       secondRoll, verdict, tableShown, probabilities >>

gameVars ==
    << computerFirst, firstPlayerDiceIndex, secondPlayerDiceIndex, computerAvailable,
       userMenu, chosen, firstRoll, secondRoll, verdict, tableShown, probabilities >>

\* No exchange round has begun.
NoRound ==
    [ min |-> 0, max |-> 0, key |-> 0, phase |-> "none", randomValue |-> 0,
      computerNumber |-> Undefined, hmac |-> NoDigest, userNumber |-> Undefined,
      shownNumber |-> Undefined, shownKey |-> 0, result |-> Undefined,
      retries |-> 0, log |-> <<>> ]

\* fairRandomGeneration, lines 35-38: the key is generated and
\* generateUniformRandom is entered.
NewRound(mn, mx, k) ==
    [NoRound EXCEPT !.min = mn, !.max = mx, !.key = k, !.phase = "draw"]

\* The state the process starts in, for an argument list.
Start(a) ==
    /\ args = a
    /\ pc = "main"
    /\ exitCode = -1
    /\ rl = "none"
    /\ dice = <<>>
    /\ round = NoRound
    /\ computerFirst = Undefined
    /\ firstPlayerDiceIndex = -1
    /\ secondPlayerDiceIndex = -1
    /\ computerAvailable = {}
    /\ userMenu = {}
    /\ chosen = Undefined
    /\ firstRoll = Undefined
    /\ secondRoll = Undefined
    /\ verdict = "none"
    /\ tableShown = FALSE
    /\ probabilities = <<>>

Init == \E a \in GameArgLists : Start(a)

InitArgs == \E a \in ArgLists : Start(a)

\* ------------------------------------------------------------ helpers of the game
DiceIndices == 0..(Len(dice) - 1)

\* Dice.getValue: faces[faceIndex], undefined when faceIndex is no index of faces.
GetValue(faces, faceIndex) ==
    IF IsNum(faceIndex) /\ faceIndex.v \in 0..(Len(faces) - 1)
      THEN Num(faces[faceIndex.v + 1])
      ELSE Undefined

\* The filter of computerChooseDice and userChooseDice without its exclusion.
AvailableDiceAll(excludeIndex) == DiceIndices

\* computerChooseDice and userChooseDice: the indices i with i !== excludeIndex.
AvailableDice(excludeIndex) == {i \in DiceIndices : i # excludeIndex}

\* One pass of getUserNumber's loop over the trimmed line: null, '?', the number,
\* or Reprompt when the loop goes round again.
Reprompt == [t |-> "reprompt", v |-> 0]
GetUserNumber(choice, min, max) ==
    IF ToUpperCase(choice) = <<"X">> THEN Null
    ELSE IF choice = <<"?">> THEN HelpStr
    ELSE LET num == ParseInt(choice)
         IN  IF num # NaN /\ num.v >= min /\ num.v <= max THEN num ELSE Reprompt

\* One pass of userChooseDice's loop: null, '?', the die index, or Reprompt.
UserChoice(choice, excludeIndex) ==
    IF ToUpperCase(choice) = <<"X">> THEN Null
    ELSE IF choice = <<"?">> THEN HelpStr
    ELSE LET diceIndex == ParseInt(choice)
         IN  IF /\ diceIndex # NaN
                /\ diceIndex.v >= 0
                /\ diceIndex.v < Len(dice)
                /\ diceIndex.v # excludeIndex
               THEN diceIndex
               ELSE Reprompt

\* fairRandomGeneration, line 49.
FairResult(computerNumber, userNumber, min, max) ==
    JSAdd(JSRem(JSAdd(computerNumber, userNumber), max - min + 1), Num(min))

\* fairRandomGeneration without line 44, its early return on a cancellation.
FinishRoundNoCancel(rd, userNumber) ==
    [rd EXCEPT !.phase = "returned", !.userNumber = userNumber,
               !.shownNumber = rd.computerNumber, !.shownKey = rd.key,
               !.result = FairResult(rd.computerNumber, userNumber, rd.min, rd.max),
               !.log = @ \o <<"read", "reveal", "result">>]

\* A round that shows and uses another value of its range than the one it drew.
FinishRoundOtherValue(rd, userNumber) ==
    LET other == Num(rd.max - (rd.computerNumber.v - rd.min))
    IN  [rd EXCEPT !.phase = "returned", !.userNumber = userNumber,
                   !.shownNumber = other, !.shownKey = rd.key,
                   !.result = IF userNumber = Null THEN Null
                              ELSE FairResult(other, userNumber, rd.min, rd.max),
                   !.log = @ \o <<"read", "reveal", "result">>]

\* fairRandomGeneration, lines 44-52, once getUserNumber has returned userNumber.
FinishRound(rd, userNumber) ==
    IF userNumber = Null
      THEN [rd EXCEPT !.phase = "returned", !.userNumber = userNumber, !.result = Null,
                      !.log = Append(@, "read")]
      ELSE [rd EXCEPT !.phase = "returned", !.userNumber = userNumber,
                      !.shownNumber = rd.computerNumber, !.shownKey = rd.key,
                      !.result = FairResult(rd.computerNumber, userNumber, rd.min, rd.max),
                      !.log = @ \o <<"read", "reveal", "result">>]

\* The first move given to the computer on the result 1.
ComputerGoesFirstOnOne(result) == result = Num(1)

\* determineFirstPlayer, line 202.
ComputerGoesFirst(result) == result = Num(0)

\* playGame, lines 304-320.
Adjudicate(cf, first, second) ==
    IF cf
      THEN IF JSGreater(first, second) THEN "I win"
           ELSE IF JSGreater(second, first) THEN "You win"
           ELSE "tie"
      ELSE IF JSGreater(first, second) THEN "You win"
           ELSE IF JSGreater(second, first) THEN "I win"
           ELSE "tie"

\* ------------------------------------------------------------ actions
\* main, lines 368-391, up to the first await that needs the console: the
\* arguments are validated, and only then the game and its readline interface
\* are made and determineFirstPlayer begins its first round.
Main ==
    /\ pc = "main"
    /\ LET v == ValidateArguments(args)
       IN  IF Len(args) < 3 \/ ~v.ok
             THEN /\ pc' = "rejected"
                  /\ exitCode' = 1
                  /\ UNCHANGED <<dice, rl, round>>
             ELSE /\ dice' = v.configs
                  /\ rl' = "open"
                  /\ pc' = "firstMove"
                  /\ exitCode' = exitCode
                  /\ \E k \in Keys : round' = NewRound(0, 1, k)
    /\ UNCHANGED <<args, gameVars>>

InRound == pc \in {"firstMove", "firstRoll", "secondRoll", "call", "uniform"}

\* generateUniformRandom, lines 16-23: a raw value above maxValid is drawn again.
DrawReject ==
    /\ InRound
    /\ round.phase = "draw"
    /\ LET maxValid == MaxValid(round.max - round.min + 1)
       IN  \E raw \in RawValues(round.max - round.min + 1) :
              /\ raw > maxValid
              /\ round' = [round EXCEPT !.randomValue = raw]
    /\ UNCHANGED <<args, pc, exitCode, rl, dice, gameVars>>

\* generateUniformRandom, lines 23-25, and fairRandomGeneration, lines 40-43, up
\* to getUserNumber's first question: the value is fixed, its digest and the menu
\* are printed.
DrawAccept ==
    /\ InRound
    /\ round.phase = "draw"
    /\ LET maxValid == MaxValid(round.max - round.min + 1)
           accepted == {raw \in RawValues(round.max - round.min + 1) : raw <= maxValid}
       IN  \E c \in {UniformValue(raw, round.min, round.max) : raw \in accepted} :
              round' = [round EXCEPT !.phase = "prompt",
                                     !.randomValue = 0,
                                     !.computerNumber = Num(c),
                                     !.hmac = CalculateHMAC(c, round.key),
                                     !.log = <<"hmac", "prompt">>]
    /\ UNCHANGED <<args, pc, exitCode, rl, dice, gameVars>>

\* The user answers getUserNumber's question (lines 64-77) and
\* fairRandomGeneration runs to its return (lines 44-52).
Reply ==
    /\ InRound
    /\ round.phase = "prompt"
    /\ \E userNumber \in {GetUserNumber(Trim(line), round.min, round.max) : line \in Replies} :
          IF userNumber = Reprompt
            THEN /\ round.retries < MaxRetries
                 /\ round' = [round EXCEPT !.retries = @ + 1,
                                           !.log = @ \o <<"read", "invalid", "prompt">>]
            ELSE round' = FinishRound(round, userNumber)
    /\ UNCHANGED <<args, pc, exitCode, rl, dice, gameVars>>

\* playGame returns after a cancellation: the finally block closes the
\* interface, main returns and the process ends.
Cancelled ==
    /\ pc' = "exited"
    /\ rl' = "closed"
    /\ exitCode' = 0
    /\ UNCHANGED <<args, dice, round, gameVars>>

\* determineFirstPlayer, lines 196-202, and playGame, lines 274-293, up to
\* userChooseDice's first question.
FirstMoveReturn ==
    /\ pc = "firstMove"
    /\ round.phase = "returned"
    /\ IF round.result = Null THEN Cancelled
       ELSE IF round.result = HelpStr
         THEN /\ tableShown' = TRUE
              /\ probabilities' = CalculateWinProbabilities(dice)
              /\ \E k \in Keys : round' = NewRound(0, 1, k)
              /\ UNCHANGED <<args, pc, exitCode, rl, dice, computerFirst,
                             firstPlayerDiceIndex, secondPlayerDiceIndex,
                             computerAvailable, userMenu, chosen, firstRoll, secondRoll,
                             verdict>>
       ELSE /\ computerFirst' = Bool(ComputerGoesFirst(round.result))
            /\ IF ComputerGoesFirst(round.result)
                 THEN \E i \in AvailableDice(-1) :
                         /\ firstPlayerDiceIndex' = i
                         /\ computerAvailable' = AvailableDice(-1)
                         /\ userMenu' = AvailableDice(i)
                 ELSE /\ userMenu' = AvailableDice(-1)
                      /\ UNCHANGED <<firstPlayerDiceIndex, computerAvailable>>
            /\ pc' = "chooseDice"
            /\ UNCHANGED <<args, exitCode, rl, dice, round, secondPlayerDiceIndex,
                           chosen, firstRoll, secondRoll, verdict, tableShown, probabilities>>

\* The user answers userChooseDice's question (lines 227-242): the table is
\* shown and the menu printed again, the menu is printed again after an invalid
\* line, or userChooseDice returns.
Choose ==
    /\ pc = "chooseDice"
    /\ chosen = Undefined
    /\ LET excludeIndex == IF computerFirst = True THEN firstPlayerDiceIndex ELSE -1
       IN  \E choice \in {UserChoice(Trim(line), excludeIndex) : line \in Replies} :
              IF choice = HelpStr
                THEN /\ tableShown' = TRUE
                     /\ probabilities' = CalculateWinProbabilities(dice)
                     /\ chosen' = chosen
              ELSE IF choice = Reprompt THEN UNCHANGED <<chosen, tableShown, probabilities>>
              ELSE /\ chosen' = choice
                   /\ UNCHANGED <<tableShown, probabilities>>
    /\ UNCHANGED <<args, pc, exitCode, rl, dice, round, computerFirst,
                   firstPlayerDiceIndex, secondPlayerDiceIndex, computerAvailable,
                   userMenu, firstRoll, secondRoll, verdict>>

\* playGame, lines 281-298, once userChooseDice has returned: the second pick is
\* made and the first roll's round begins.
ChooseReturn ==
    /\ pc = "chooseDice"
    /\ chosen # Undefined
    /\ IF chosen = Null THEN Cancelled
       ELSE /\ IF computerFirst = True
                 THEN /\ secondPlayerDiceIndex' = chosen.v
                      /\ UNCHANGED <<firstPlayerDiceIndex, computerAvailable>>
                 ELSE /\ firstPlayerDiceIndex' = chosen.v
                      /\ computerAvailable' = AvailableDice(chosen.v)
                      /\ \E j \in AvailableDice(chosen.v) : secondPlayerDiceIndex' = j
            /\ \E k \in Keys :
                  round' = NewRound(0, Len(dice[firstPlayerDiceIndex' + 1]) - 1, k)
            /\ pc' = "firstRoll"
            /\ UNCHANGED <<args, exitCode, rl, dice, computerFirst, userMenu, chosen,
                           firstRoll, secondRoll, verdict, tableShown, probabilities>>

\* rollDice, lines 251-259, for the first player, and playGame, lines 299-301,
\* into the second roll's round.
FirstRollReturn ==
    /\ pc = "firstRoll"
    /\ round.phase = "returned"
    /\ IF round.result = Null THEN Cancelled
       ELSE IF round.result = HelpStr
         THEN /\ tableShown' = TRUE
              /\ probabilities' = CalculateWinProbabilities(dice)
              /\ \E k \in Keys : round' = NewRound(round.min, round.max, k)
              /\ UNCHANGED <<args, pc, exitCode, rl, dice, computerFirst,
                             firstPlayerDiceIndex, secondPlayerDiceIndex,
                             computerAvailable, userMenu, chosen, firstRoll, secondRoll,
                             verdict>>
       ELSE /\ firstRoll' = GetValue(dice[firstPlayerDiceIndex + 1], round.result)
            /\ \E k \in Keys :
                  round' = NewRound(0, Len(dice[secondPlayerDiceIndex + 1]) - 1, k)
            /\ pc' = "secondRoll"
            /\ UNCHANGED <<args, exitCode, rl, dice, computerFirst, firstPlayerDiceIndex,
                           secondPlayerDiceIndex, computerAvailable, userMenu, chosen,
                           secondRoll, verdict, tableShown, probabilities>>

\* rollDice, lines 251-259, for the second player, and playGame, lines 302-330:
\* the rolls are compared, the interface is closed and the process ends.
SecondRollReturn ==
    /\ pc = "secondRoll"
    /\ round.phase = "returned"
    /\ IF round.result = Null THEN Cancelled
       ELSE IF round.result = HelpStr
         THEN /\ tableShown' = TRUE
              /\ probabilities' = CalculateWinProbabilities(dice)
              /\ \E k \in Keys : round' = NewRound(round.min, round.max, k)
              /\ UNCHANGED <<args, pc, exitCode, rl, dice, computerFirst,
                             firstPlayerDiceIndex, secondPlayerDiceIndex,
                             computerAvailable, userMenu, chosen, firstRoll, secondRoll,
                             verdict>>
       ELSE /\ secondRoll' = GetValue(dice[secondPlayerDiceIndex + 1], round.result)
            /\ verdict' = Adjudicate(computerFirst = True, firstRoll, secondRoll')
            /\ rl' = "closed"
            /\ exitCode' = 0
            /\ pc' = "completed"
            /\ UNCHANGED <<args, dice, round, computerFirst, firstPlayerDiceIndex,
                           secondPlayerDiceIndex, computerAvailable, userMenu, chosen,
                           firstRoll, tableShown, probabilities>>

\* An error thrown inside playGame that skips the finally block of line 328.
ThrowNoFinally ==
    /\ pc \in {"firstMove", "firstRoll", "secondRoll"}
    /\ round.phase = "draw"
    /\ pc' = "thrown"
    /\ UNCHANGED <<args, exitCode, rl, dice, round, gameVars>>

\* crypto.randomBytes throws while a round draws its key or its value (lines 6
\* and 17): the error is no SIGINT, so playGame throws it again (line 326) and
\* its finally block closes the interface (lines 328-330).
Throw ==
    /\ pc \in {"firstMove", "firstRoll", "secondRoll"}
    /\ round.phase = "draw"
    /\ rl' = "closed"
    /\ pc' = "thrown"
    /\ UNCHANGED <<args, exitCode, dice, round, gameVars>>

\* main, lines 383-390: the error of playGame is reported and the process exits
\* with code 1.
MainCatch ==
    /\ pc = "thrown"
    /\ exitCode' = 1
    /\ pc' = "faulted"
    /\ UNCHANGED <<args, rl, dice, round, gameVars>>

Next ==
    \/ Main
    \/ DrawReject
    \/ DrawAccept
    \/ Reply
    \/ FirstMoveReturn
    \/ Choose
    \/ ChooseReturn
    \/ FirstRollReturn
    \/ SecondRollReturn
    \/ Throw
    \/ MainCatch

Spec == Init /\ [][Next]_vars

\* The user ends getUserNumber's loop (lines 66-74): with X, with ? or with a
\* number of the range.
UserAnswers ==
    /\ InRound
    /\ round.phase = "prompt"
    /\ \E userNumber \in {Null, HelpStr} \cup {Num(n) : n \in round.min..round.max} :
          round' = FinishRound(round, userNumber)
    /\ UNCHANGED <<args, pc, exitCode, rl, dice, gameVars>>

\* The steps the user and the draws are assumed to take in the end: a draw is
\* accepted, the user answers a prompt, and the program runs on from an await.
Progress ==
    \/ DrawAccept
    \/ UserAnswers
    \/ FirstMoveReturn
    \/ Choose
    \/ ChooseReturn
    \/ FirstRollReturn
    \/ SecondRollReturn
    \/ MainCatch

\* A game of the three dice 2,2,4,4,9,9, 6,8,1,1,8,6 and 2,2,6,6,7,7x.
InitLive == Start(<<CharsA, CharsB, CharsJunk>>)

\* The game with a user who answers every prompt in the end and draws that are
\* accepted in the end.
SpecLive == InitLive /\ [][Next]_vars /\ WF_vars(Progress)

\* Argument validation over every argument list of at most MaxArgs arguments.
NextArgs == Main

SpecArgs == InitArgs /\ [][NextArgs]_vars

\* One call of fairRandomGeneration(min, max, ...) on its own, for every range
\* within the bounds.
InitExchange ==
    \E mn \in (-MaxAbs)..MaxAbs, mx \in (-MaxAbs)..MaxAbs, k \in Keys :
       /\ mn <= mx
       /\ args = <<>>
       /\ pc = "call"
       /\ exitCode = -1
       /\ rl = "open"
       /\ dice = <<>>
       /\ round = NewRound(mn, mx, k)
       /\ computerFirst = Undefined
       /\ firstPlayerDiceIndex = -1
       /\ secondPlayerDiceIndex = -1
       /\ computerAvailable = {}
       /\ userMenu = {}
       /\ chosen = Undefined
       /\ firstRoll = Undefined
       /\ secondRoll = Undefined
       /\ verdict = "none"
       /\ tableShown = FALSE
       /\ probabilities = <<>>

NextExchange ==
    \/ DrawReject
    \/ DrawAccept
    \/ Reply

SpecExchange == InitExchange /\ [][NextExchange]_vars

\* The lower ends of the ranges SpecUniform enumerates.
UniformMins == {0, 1}

\* One call of generateUniformRandom(min, max, key) on its own, for every width
\* up to MaxWidth.
InitUniform ==
    \E w \in 1..MaxWidth, mn \in UniformMins :
       /\ args = <<>>
       /\ pc = "uniform"
       /\ exitCode = -1
       /\ rl = "none"
       /\ dice = <<>>
       /\ round = NewRound(mn, mn + w - 1, 1)
       /\ computerFirst = Undefined
       /\ firstPlayerDiceIndex = -1
       /\ secondPlayerDiceIndex = -1
       /\ computerAvailable = {}
       /\ userMenu = {}
       /\ chosen = Undefined
       /\ firstRoll = Undefined
       /\ secondRoll = Undefined
       /\ verdict = "none"
       /\ tableShown = FALSE
       /\ probabilities = <<>>

\* generateUniformRandom, lines 23-25, on its own: the loop ends with a raw
\* value of at most maxValid and the value of line 25 is returned.
UniformReturn ==
    /\ pc = "uniform"
    /\ round.phase = "draw"
    /\ LET maxValid == MaxValid(round.max - round.min + 1)
       IN  \E raw \in RawValues(round.max - round.min + 1) :
              /\ raw <= maxValid
              /\ round' = [round EXCEPT !.phase = "returned",
                                         !.randomValue = raw,
                                         !.computerNumber =
                                             Num(UniformValue(raw, round.min, round.max))]
    /\ pc' = "uniformDone"
    /\ UNCHANGED <<args, exitCode, rl, dice, gameVars>>

NextUniform ==
    \/ DrawReject
    \/ UniformReturn

SpecUniform == InitUniform /\ [][NextUniform]_vars

\* The dice of the usage example of main, line 375.
UsageDice == ValidateArguments(<<CharsA, CharsB, CharsC>>).configs

\* The pair of dice 2,2,4,4,9,9 and 1,1,6,6,8,8.
BalancedPair == <<ParseDiceConfig(CharsA).faces, <<1, 1, 6, 6, 8, 8>>>>

\* The dice of at most MaxFaces faces with values in 1..MaxFaceValue.
SmallDice == UNION {SeqsOfLen(1..MaxFaceValue, n) : n \in 1..MaxFaces}

\* The lists of dice calculateWinProbabilities is applied to.
ProbDiceLists ==
    SeqsOfLen(SmallDice, MinDice) \cup {UsageDice, BalancedPair}

\* displayProbabilityTable on its own, for every game of MinDice small dice, the
\* dice of the usage text and the pair A, B.
InitProb ==
    \E d \in ProbDiceLists :
       /\ args = <<>>
       /\ pc = "table"
       /\ exitCode = -1
       /\ rl = "open"
       /\ dice = d
       /\ round = NoRound
       /\ computerFirst = Undefined
       /\ firstPlayerDiceIndex = -1
       /\ secondPlayerDiceIndex = -1
       /\ computerAvailable = {}
       /\ userMenu = {}
       /\ chosen = Undefined
       /\ firstRoll = Undefined
       /\ secondRoll = Undefined
       /\ verdict = "none"
       /\ tableShown = FALSE
       /\ probabilities = <<>>

\* displayProbabilityTable, line 144: the matrix is computed from the dice.
DisplayTable ==
    /\ pc = "table"
    /\ probabilities' = CalculateWinProbabilities(dice)
    /\ tableShown' = TRUE
    /\ pc' = "tableDone"
    /\ UNCHANGED <<args, exitCode, rl, dice, round, computerFirst, firstPlayerDiceIndex,
                   secondPlayerDiceIndex, computerAvailable, userMenu, chosen,
                   firstRoll, secondRoll, verdict>>

NextProb == DisplayTable

SpecProb == InitProb /\ [][NextProb]_vars

\* ------------------------------------------------------------ properties
FirstMoveDecided == pc = "chooseDice" /\ round.phase = "returned" /\ round.max = 1

\* The outcome determineFirstPlayer reaches from committed value c and the
\* contribution getUserNumber returned.
FirstMoveOutcome(c, userNumber) ==
    Bool(ComputerGoesFirst(FairResult(Num(c), userNumber, 0, 1)))

\* C1: in the first-move round the user cannot decide the outcome alone: whatever
\* reply ended the round without cancelling it, the two committed values 0 and 1
\* lead to the two different outcomes, and the outcome reached is the one of the
\* value committed.
C1_UserCannotDecideFirstMove ==
    FirstMoveDecided =>
        /\ computerFirst = FirstMoveOutcome(round.computerNumber.v, round.userNumber)
        /\ {FirstMoveOutcome(c, round.userNumber) : c \in 0..1} = {True, False}

\* C2: a call of fairRandomGeneration over [min, max] that ends with computer
\* value c and a contribution u in [0, width - 1] returns
\* (c - min + u) mod width + min, a value in [min, max].
C2_ExchangeResultFormula ==
    ( /\ pc = "call"
      /\ round.phase = "returned"
      /\ IsNum(round.userNumber)
      /\ round.userNumber.v \in 0..(round.max - round.min) ) =>
        LET width == round.max - round.min + 1
            c == round.computerNumber.v
            u == round.userNumber.v
        IN  /\ round.result = Num(((c - round.min + u) % width) + round.min)
            /\ round.result.v \in round.min..round.max

\* C3: a call of fairRandomGeneration ends with an integer in [min, max] or with
\* null, whatever the user replied.
C3_ResultInRangeOrNull ==
    round.phase = "returned" =>
        \/ round.result = Null
        \/ IsNum(round.result) /\ round.result.v \in round.min..round.max

\* The first place of event e in log, 0 when it is not there.
FirstAt(log, e) ==
    IF \E i \in 1..Len(log) : log[i] = e
      THEN CHOOSE i \in 1..Len(log) : log[i] = e /\ \A j \in 1..(i - 1) : log[j] # e
      ELSE 0

\* C4: in every round the digest of the fixed value and key is displayed before
\* the first prompt; the key and value are revealed only after the user has
\* submitted a contribution, a number of the range; a cancelled round never
\* reveals its key.
C4_CommitPromptRevealOrder ==
    /\ FirstAt(round.log, "prompt") > 0 =>
          /\ 0 < FirstAt(round.log, "hmac")
          /\ FirstAt(round.log, "hmac") < FirstAt(round.log, "prompt")
          /\ round.hmac = CalculateHMAC(round.computerNumber.v, round.key)
    /\ (round.shownKey # 0 \/ FirstAt(round.log, "reveal") > 0) =>
          /\ IsNum(round.userNumber)
          /\ round.userNumber.v \in round.min..round.max
          /\ FirstAt(round.log, "read") < FirstAt(round.log, "reveal")
    /\ round.userNumber = Null =>
          round.shownKey = 0 /\ FirstAt(round.log, "reveal") = 0

\* C5: after a '?' at the contribution prompt of the first-move round the table
\* is displayed, the game stays in the first-move state with a new round, and
\* nothing is decided: no first player, no die selection.
C5_HelpAtFirstMoveRetries ==
    [][ ( /\ pc = "firstMove"
          /\ round.phase = "returned"
          /\ round.userNumber = HelpStr ) =>
            ( /\ pc' = "firstMove"
              /\ tableShown'
              /\ computerFirst' = Undefined
              /\ round'.phase = "draw" ) ]_vars

\* A cancellation has been read and playGame has not yet returned.
CancelPending ==
    \/ /\ pc \in {"firstMove", "firstRoll", "secondRoll"}
       /\ round.phase = "returned"
       /\ round.userNumber = Null
    \/ pc = "chooseDice" /\ chosen = Null

\* C6: a cancellation read at any prompt moves the game to Exited, with exit
\* code 0, the interface closed, no win or tie line and no new round or prompt;
\* Exited is entered in no other way and nothing happens after it.
C6_CancelExits ==
    [][ /\ CancelPending =>
            /\ pc' = "exited"
            /\ exitCode' = 0
            /\ rl' = "closed"
            /\ verdict' = "none"
            /\ round' = round
            /\ chosen' = chosen
        /\ (pc' = "exited" /\ pc # "exited") => CancelPending
        /\ pc = "exited" => UNCHANGED vars ]_vars

\* A cancellation at the second roll's prompt ended the game.
C6_Witness ==
    /\ pc = "exited"
    /\ exitCode = 0
    /\ IsNum(firstRoll)
    /\ round.userNumber = Null
    /\ verdict = "none"

\* The die indices userChooseDice returns for some line, given the excluded index.
AcceptedPicks(excludeIndex) ==
    {UserChoice(Trim(l), excludeIndex).v :
        l \in {r \in Replies : IsNum(UserChoice(Trim(r), excludeIndex))}}

\* C7: the second pick is offered, and can return, the dice other than the first
\* player's die and no others; once both dice are chosen the two indices are
\* different indices of the dice list.
C7_ExclusionRule ==
    /\ (computerFirst = True /\ pc = "chooseDice") =>
          /\ userMenu = DiceIndices \ {firstPlayerDiceIndex}
          /\ AcceptedPicks(firstPlayerDiceIndex) = DiceIndices \ {firstPlayerDiceIndex}
          /\ chosen # Undefined /\ chosen # Null => chosen.v \in userMenu
    /\ (computerFirst = False /\ secondPlayerDiceIndex >= 0) =>
          /\ computerAvailable = DiceIndices \ {firstPlayerDiceIndex}
          /\ secondPlayerDiceIndex \in computerAvailable
    /\ (firstPlayerDiceIndex >= 0 /\ secondPlayerDiceIndex >= 0) =>
          /\ firstPlayerDiceIndex # secondPlayerDiceIndex
          /\ firstPlayerDiceIndex \in DiceIndices
          /\ secondPlayerDiceIndex \in DiceIndices

\* Among four dice the user picked first and the computer picked second.
C7_Witness ==
    /\ Len(dice) = 4
    /\ computerFirst = False
    /\ firstPlayerDiceIndex = 3
    /\ secondPlayerDiceIndex >= 0

\* The rolls of the computer and of the user.
ComputerRoll == IF computerFirst = True THEN firstRoll ELSE secondRoll
UserRoll == IF computerFirst = True THEN secondRoll ELSE firstRoll

\* One roll value is a number strictly greater than the other.
RollGreater(a, b) == IsNum(a) /\ IsNum(b) /\ a.v > b.v

FacesOf(arg) == Len(Split(arg))

\* C9: an argument list with fewer than 3 dice, or with a die whose number of
\* faces is not 6, is rejected with exit code 1 before a game, an interface or a
\* prompt exists; every game that starts has at least 3 dice, all of 6 faces.
C9_ArgumentsRejected ==
    /\ ( /\ pc # "main"
         /\ \/ Len(args) < 3
            \/ \E i \in 1..Len(args) : FacesOf(args[i]) # FaceCount ) =>
          /\ pc = "rejected"
          /\ exitCode = 1
          /\ dice = <<>>
          /\ rl = "none"
          /\ round = NoRound
    /\ pc \notin {"main", "rejected"} =>
          /\ Len(dice) >= 3
          /\ \A i \in 1..Len(dice) : Len(dice[i]) = FaceCount

\* A list of three dice, every token a number, was rejected for a die of 7 faces.
C9_Witness ==
    /\ pc = "rejected"
    /\ exitCode = 1
    /\ Len(args) = 3
    /\ \E i \in 1..3 : FacesOf(args[i]) = 7
    /\ \A i \in 1..3 : \A j \in 1..FacesOf(args[i]) : ParseInt(Trim(Split(args[i])[j])) # NaN

\* An integer literal: an optional sign, then digits and nothing else.
IsIntegerLiteral(s) ==
    LET u == IF s # <<>> /\ Head(s) \in {"-", "+"} THEN Tail(s) ELSE s
    IN  u # <<>> /\ \A i \in 1..Len(u) : u[i] \in Digits

\* C10: a die argument with a face token that is no integer literal is rejected
\* with exit code 1 and no game is started.
C10_NonIntegerRejected ==
    ( /\ pc # "main"
      /\ \E i \in 1..Len(args) : \E j \in 1..FacesOf(args[i]) :
            ~IsIntegerLiteral(Trim(Split(args[i])[j])) ) =>
        /\ pc = "rejected"
        /\ exitCode = 1
        /\ dice = <<>>

\* The number of pairs of places (a, b) where the face of faces1 at a is strictly
\* greater than the face of faces2 at b.
GreaterPairs(faces1, faces2) ==
    Cardinality({q \in (1..Len(faces1)) \X (1..Len(faces2)) : faces1[q[1]] > faces2[q[2]]})

\* C11 as stated: for A = 2,2,4,4,9,9 and B = 1,1,6,6,8,8 the pair probability is
\* the exact fraction of the 36 pairs where A's face is greater, and it is 0.5.
C11_BalancedPairIsHalf ==
    (pc = "tableDone" /\ dice = BalancedPair) =>
        /\ probabilities[1][2] = Divide(GreaterPairs(dice[1], dice[2]), 36)
        /\ probabilities[1][2] = Half

\* C11 amended: for A = 2,2,4,4,9,9 and B = 1,1,6,6,8,8 the pair probability is
\* the exact fraction of the 36 pairs where A's face is greater, which is 20 of
\* 36, that is 5/9.
C11_BalancedPairIsFiveNinths ==
    (pc = "tableDone" /\ dice = BalancedPair) =>
        /\ probabilities[1][2] = Divide(GreaterPairs(dice[1], dice[2]), 36)
        /\ GreaterPairs(dice[1], dice[2]) = 20
        /\ probabilities[1][2] = [num |-> 5, den |-> 9]

\* The matrix of the pair A, B has been computed.
C11_Witness ==
    /\ pc = "tableDone"
    /\ dice = <<<<2, 2, 4, 4, 9, 9>>, <<1, 1, 6, 6, 8, 8>>>>
    /\ Len(probabilities) = 2

\* C12: for the dice of the usage text the matrix is non-transitive:
\* P(A>B) > 0.5, P(B>C) > 0.5 and P(C>A) > 0.5.
C12_UsageDiceNonTransitive ==
    (pc = "tableDone" /\ dice = UsageDice) =>
        /\ AboveHalf(probabilities[1][2])
        /\ AboveHalf(probabilities[2][3])
        /\ AboveHalf(probabilities[3][1])

\* The matrix of the usage dice has been computed.
C12_Witness ==
    /\ pc = "tableDone"
    /\ dice = <<<<2, 2, 4, 4, 9, 9>>, <<6, 8, 1, 1, 8, 6>>, <<7, 5, 3, 7, 5, 3>>>>
    /\ Len(probabilities) = 3

\* m is the square matrix of d: 0.5 on the diagonal, elsewhere the number of
\* pairs of places with the greater face on the row die over the number of pairs.
IsWinMatrix(m, d) ==
    /\ Len(m) = Len(d)
    /\ \A i \in 1..Len(d) :
          /\ Len(m[i]) = Len(d)
          /\ m[i][i] = Half
          /\ \A j \in 1..Len(d) :
                i # j =>
                   /\ m[i][j].den # 0
                   /\ m[i][j].num * (Len(d[i]) * Len(d[j]))
                        = GreaterPairs(d[i], d[j]) * m[i][j].den

\* C13: calculateWinProbabilities returns the square matrix of its dice, counted
\* over all pairs of places, with 0.5 on the diagonal, and leaves the dice as
\* they were.
C13_WinMatrix ==
    [][ pc' = "tableDone" => (IsWinMatrix(probabilities', dice') /\ dice' = dice) ]_vars

\* A matrix was computed for three dice, two of them with a face in common.
C13_Witness ==
    /\ pc = "tableDone"
    /\ Len(probabilities) = 3
    /\ dice[1] = <<1, 2>>
    /\ dice[2] = <<2, 2>>
    /\ dice[3] = <<1>>

\* The session has ended or an error has left playGame.
OutOfPlayGame == rl # "none" /\ pc \in {"completed", "exited", "thrown", "faulted"}

\* C14: the interface opened for the session is closed on every path out of
\* playGame, after a completed game, after a cancellation and after an error
\* thrown during the game; after an error it is closed before the process exits
\* with code 1.
C14_InterfaceClosed ==
    /\ [](OutOfPlayGame => rl = "closed")
    /\ [](pc = "completed" \/ pc = "exited" => exitCode = 0)
    /\ [](pc = "faulted" => exitCode = 1)
    /\ [][(pc = "thrown" /\ exitCode' # exitCode) =>
            (rl = "closed" /\ rl' = "closed" /\ exitCode' = 1)]_vars

\* An error was thrown during a roll and the process has ended for it.
C14_Witness ==
    /\ pc = "faulted"
    /\ exitCode = 1
    /\ rl = "closed"
    /\ firstPlayerDiceIndex # -1

\* value is the face of faces at an integer index of 0..faceCount-1.
IsFaceOf(value, faces) ==
    /\ IsNum(value)
    /\ \E faceIndex \in 0..(Len(faces) - 1) : value.v = faces[faceIndex + 1]

\* C15: each roll value is a face of the roller's own die, at an integer index
\* of 0..faceCount-1 that the roll's round produced, whatever the user replies.
C15_RollIsOwnFace ==
    /\ pc \in {"secondRoll", "completed"} =>
          IsFaceOf(firstRoll, dice[firstPlayerDiceIndex + 1])
    /\ pc = "completed" =>
          /\ IsFaceOf(secondRoll, dice[secondPlayerDiceIndex + 1])
          /\ IsNum(round.result)
          /\ round.result.v \in 0..(Len(dice[secondPlayerDiceIndex + 1]) - 1)
          /\ secondRoll.v = dice[secondPlayerDiceIndex + 1][round.result.v + 1]

\* The number of byte strings of the length generateUniformRandom draws for a
\* range of w values: one for w = 1, 256 for w up to 256, 65536 above.
RawCount(w) == IF w = 1 THEN 1 ELSE IF w <= 256 THEN 256 ELSE 65536

\* The largest multiple of w that is at most RawCount(w).
LargestMultiple(w) ==
    CHOOSE m \in 0..RawCount(w) : m % w = 0 /\ m + w > RawCount(w)

\* The raw values generateUniformRandom accepts for a range of w values.
AcceptedRaws(w) ==
    LET maxValid == MaxValid(w)
    IN  {raw \in RawValues(w) : raw <= maxValid}

\* C16: for every width from 1 to MaxWidth, the degenerate width 1 included, the
\* value returned for an accepted raw value lies in min..max, every value of
\* min..max is the image of the same number of accepted raw values, and a raw
\* value is drawn again exactly when it is not below the largest multiple of the
\* width.
C16_UniformByRejection ==
    LET w == round.max - round.min + 1
        multiple == LargestMultiple(w)
        accepted == AcceptedRaws(w)
    IN  /\ pc = "uniformDone" =>
              /\ IsNum(round.computerNumber)
              /\ round.computerNumber.v \in round.min..round.max
              /\ round.randomValue < multiple
              /\ round.computerNumber.v = (round.randomValue % w) + round.min
        /\ (pc = "uniform" /\ round.randomValue # 0) => round.randomValue >= multiple
        /\ (pc = "uniform" /\ round.randomValue = 0) =>
              /\ MaxValid(w) >= 0
              /\ \A v \in round.min..round.max :
                    Cardinality({raw \in accepted :
                                   UniformValue(raw, round.min, round.max) = v}) * w
                      = multiple

\* A range of three values: the raw value 255 was drawn again and the call has
\* returned a value for the raw value 254.
C16_Witness ==
    /\ pc = "uniformDone"
    /\ round.max - round.min + 1 = 3
    /\ round.randomValue = 254
    /\ round.computerNumber = Num(round.min + 2)

\* The degenerate range of one value returns that value.
C16_DegenerateReturns ==
    /\ pc = "uniformDone"
    /\ round.min = round.max
    /\ round.computerNumber = Num(round.min)

\* C17: the first-move result 0 makes the computer pick and roll first, the
\* result 1 the user; the second player picks only once the first player's die
\* is fixed, and the first roll's round has returned before the second roll's
\* round starts.
C17_OrderOfPlay ==
    [][ /\ (pc = "firstMove" /\ pc' = "chooseDice" /\ round.result = Num(0)) =>
              /\ computerFirst' = True
              /\ firstPlayerDiceIndex' \in DiceIndices
              /\ secondPlayerDiceIndex' = -1
              /\ firstPlayerDiceIndex' \notin userMenu'
        /\ (pc = "firstMove" /\ pc' = "chooseDice" /\ round.result = Num(1)) =>
              /\ computerFirst' = False
              /\ firstPlayerDiceIndex' = -1
              /\ secondPlayerDiceIndex' = -1
              /\ userMenu' = DiceIndices
        /\ (pc = "chooseDice" /\ pc' = "firstRoll") =>
              /\ IsNum(chosen)
              /\ computerFirst = True =>
                    /\ firstPlayerDiceIndex' = firstPlayerDiceIndex
                    /\ secondPlayerDiceIndex' = chosen.v
              /\ computerFirst = False =>
                    /\ firstPlayerDiceIndex' = chosen.v
                    /\ secondPlayerDiceIndex' \in DiceIndices \ {chosen.v}
                    /\ computerAvailable' = DiceIndices \ {chosen.v}
              /\ round'.max = Len(dice[firstPlayerDiceIndex' + 1]) - 1
        /\ secondPlayerDiceIndex' # secondPlayerDiceIndex =>
              /\ firstPlayerDiceIndex' # -1
              /\ secondPlayerDiceIndex' # firstPlayerDiceIndex'
        /\ pc = "firstRoll" => (firstRoll = Undefined /\ secondRoll = Undefined)
        /\ (pc' = "secondRoll" /\ pc # "secondRoll") =>
              /\ pc = "firstRoll"
              /\ round.phase = "returned"
              /\ round'.phase = "draw"
              /\ round'.max = Len(dice[secondPlayerDiceIndex + 1]) - 1
              /\ IsNum(round.result) =>
                    firstRoll' = Num(dice[firstPlayerDiceIndex + 1][round.result.v + 1])
              /\ secondRoll' = Undefined
        /\ UNCHANGED computerFirst \/ pc = "firstMove"
      ]_vars

\* The result was 0, the computer picked die 1 and the user die 0, and the
\* computer's roll is made while the user's roll has not begun.
C17_Witness ==
    /\ pc = "secondRoll"
    /\ computerFirst = True
    /\ firstPlayerDiceIndex = 1
    /\ secondPlayerDiceIndex = 0
    /\ IsNum(firstRoll)
    /\ secondRoll = Undefined
    /\ round.phase = "draw"

\* The trimmed line is none of '?', 'X', 'x' and no integer of allowed.
IsInvalidSelection(line, allowed) ==
    LET t == Trim(line)
    IN  /\ t \notin {<<"?">>, <<"X">>, <<"x">>}
        /\ ~(IsIntegerLiteral(t) /\ ParseInt(t).v \in allowed)

\* C18: an invalid selection, a number out of range or a text that is no number
\* and none of '?', 'X', 'x', changes nothing: at a contribution prompt the round
\* goes on with its value, key and digest, no key is shown and no new round is
\* made; at the die prompt no die is chosen; the prompt is shown again.
C18_InvalidSelectionChangesNothing ==
    /\ []((InRound /\ round.phase = "prompt") =>
            \A line \in Replies :
                IsInvalidSelection(line, round.min..round.max) =>
                    GetUserNumber(Trim(line), round.min, round.max) = Reprompt)
    /\ []((pc = "chooseDice" /\ chosen = Undefined) =>
            LET excludeIndex == IF computerFirst = True THEN firstPlayerDiceIndex ELSE -1
            IN  \A line \in Replies :
                    IsInvalidSelection(line, DiceIndices \ {excludeIndex}) =>
                        UserChoice(Trim(line), excludeIndex) = Reprompt)
    /\ [][ round'.retries = round.retries + 1 =>
              /\ round'.phase = "prompt"
              /\ round'.key = round.key
              /\ round'.computerNumber = round.computerNumber
              /\ round'.hmac = round.hmac
              /\ round'.min = round.min
              /\ round'.max = round.max
              /\ round'.shownKey = 0
              /\ round'.result = Undefined
              /\ UNCHANGED <<pc, exitCode, rl, dice, gameVars>> ]_vars

\* C19: in a round that reaches the reveal, the value and the key shown are
\* those the digest was computed from, the combined result is computed from that
\* value, and no reply changes the value, the key or the digest between the
\* commitment and the reveal.
C19_CommitmentBinding ==
    /\ [](round.shownKey # 0 =>
            /\ round.shownKey = round.key
            /\ IsNum(round.shownNumber)
            /\ round.shownNumber = round.computerNumber
            /\ round.hmac = [key |-> round.shownKey,
                             msg |-> NumToString(round.shownNumber.v)]
            /\ \A c \in round.min..round.max : \A k \in Keys :
                  CalculateHMAC(c, k) = round.hmac =>
                      (c = round.shownNumber.v /\ k = round.shownKey)
            /\ round.result =
                  JSAdd(JSRem(JSAdd(round.shownNumber, round.userNumber),
                              round.max - round.min + 1),
                        Num(round.min)))
    /\ [][ (round.phase = "prompt" /\ round'.phase \in {"prompt", "returned"}) =>
              /\ round'.key = round.key
              /\ round'.computerNumber = round.computerNumber
              /\ round'.hmac = round.hmac ]_vars

\* The first roll's round has shown its value and key after an invalid reply and
\* a number.
C19_Witness ==
    /\ pc = "firstRoll"
    /\ round.phase = "returned"
    /\ round.retries = 1
    /\ round.shownKey = 2
    /\ round.shownNumber = Num(3)
    /\ round.userNumber = Num(4)
    /\ round.result = Num(1)

\* The stages of playGame in the order they follow one another, and the ways a
\* stage is left.
StageSteps ==
    { <<"main", "firstMove">>, <<"firstMove", "chooseDice">>,
      <<"chooseDice", "firstRoll">>, <<"firstRoll", "secondRoll">>,
      <<"secondRoll", "completed">>,
      <<"firstMove", "exited">>, <<"chooseDice", "exited">>,
      <<"firstRoll", "exited">>, <<"secondRoll", "exited">>,
      <<"firstMove", "thrown">>, <<"firstRoll", "thrown">>,
      <<"secondRoll", "thrown">>, <<"thrown", "faulted">> }

\* C20: with a user who answers every prompt in the end and draws that are
\* accepted in the end, the game ends; it ends Completed, with a win or tie line
\* after one first-move decision, one pick for each player and one roll for
\* each player, unless the user cancelled or an error was thrown; a cancellation
\* always ends in Exited.
C20_Termination ==
    /\ (pc = "firstMove" ~> pc \in {"completed", "exited", "faulted"})
    /\ (CancelPending ~> pc = "exited")
    /\ [](pc = "exited" => (chosen = Null \/ round.userNumber = Null))
    /\ [](pc = "completed" =>
            /\ verdict \in {"I win", "You win", "tie"}
            /\ computerFirst \in {True, False}
            /\ firstPlayerDiceIndex \in DiceIndices
            /\ secondPlayerDiceIndex \in DiceIndices \ {firstPlayerDiceIndex}
            /\ round.phase = "returned")
    /\ [][ /\ pc' # pc => <<pc, pc'>> \in StageSteps
           /\ computerFirst # Undefined => computerFirst' = computerFirst
           /\ firstPlayerDiceIndex # -1 => firstPlayerDiceIndex' = firstPlayerDiceIndex
           /\ secondPlayerDiceIndex # -1 => secondPlayerDiceIndex' = secondPlayerDiceIndex
           /\ firstRoll' # firstRoll => (pc = "firstRoll" /\ pc' = "secondRoll")
           /\ secondRoll' # secondRoll => (pc = "secondRoll" /\ pc' = "completed")
           /\ verdict' # verdict => (pc = "secondRoll" /\ pc' = "completed") ]_vars

\* A game has ended Completed after an invalid reply in the last round and a
\* table shown on the way.
C20_Witness ==
    /\ pc = "completed"
    /\ verdict = "You win"
    /\ round.retries = 1
    /\ tableShown
    /\ IsNum(firstRoll)
    /\ IsNum(secondRoll)

====
